---- MODULE Spec2Model ----
(***************************************************************************)
(* Model of scripts/parse_headers.py: the extraction of a class record     *)
(* from a parsed C++ header (get_class), its rendering to LuaBridge        *)
(* registration text (CppClass / Constructor / Method / Param __str__),    *)
(* and the driver loop main().                                             *)
(*                                                                         *)
(* Python values are modelled as follows.  A dict is a record (a function  *)
(* on its keys); `k in d` is `k \in DOMAIN d`, and d[k] on an absent key   *)
(* raises KeyError.  A list is a sequence, and l[0] on an empty list       *)
(* raises IndexError.  An Optional value is <<>> for None and <<v>> for a  *)
(* value.  Text is a TLA+ string, built by concatenation as the f-strings  *)
(* build it.                                                               *)
(***************************************************************************)
EXTENDS Integers, Sequences, FiniteSets, TLC

VARIABLES corpus, pc, i, j, classes, out

vars == <<corpus, pc, i, j, classes, out>>

-----------------------------------------------------------------------------
(* Bounds *)

MaxFiles == 3
MaxMembers == 4
MaxParams == 3

-----------------------------------------------------------------------------
(* Python values *)

None == <<>>
Some(v) == <<v>>

\* str() of an Optional[str] inside an f-string
Str(o) == IF o = None THEN "None" ELSE o[1]

\* the outcome of an evaluation that may raise
Ok(v) == [exc |-> "", val |-> v]
Raise(e) == [exc |-> e]
Raised(r) == r.exc # ""

\* str.startswith
StartsWith(s, prefix) ==
    /\ Len(s) >= Len(prefix)
    /\ SubSeq(s, 1, Len(prefix)) = prefix

\* sep.join(parts)
RECURSIVE Join(_, _)
Join(parts, sep) ==
    IF Len(parts) = 0 THEN ""
    ELSE IF Len(parts) = 1 THEN parts[1]
    ELSE parts[1] \o sep \o Join(Tail(parts), sep)

\* print(a, b): the arguments separated by one space
Print2(a, b) == a \o " " \o b

-----------------------------------------------------------------------------
(* The parsed tree, as dataclasses.asdict delivers it to get_class *)

PQName(n) == [segments |-> <<[name |-> n]>>]
NamedType(n) == [typename |-> PQName(n)]
RefTo(t) == [ref_to |-> t]
PtrTo(t) == [ptr_to |-> t]
ArrayOf(t) == [array_of |-> t]

Parameter(n, t) == [name |-> n, type |-> t]

Member(access, ctor, dtor, n, params, ret) ==
    [access |-> access, constructor |-> ctor, destructor |-> dtor,
     name |-> PQName(n), parameters |-> params, return_type |-> ret]

ClassDecl(n, members) ==
    [class_decl |-> [typename |-> PQName(n)], methods |-> members]

StkTree(cs) == [namespace |-> [namespaces |-> [stk |-> [classes |-> cs]]]]
StdTree(cs) == [namespace |-> [namespaces |-> [std |-> [classes |-> cs]]]]

-----------------------------------------------------------------------------
(* Param, Constructor, Method, CppClass *)

\* Param.__str__ without the reference suffix
ParamStrNoRef(p) == p.type \o " " \o Str(p.name)

\* Param.__str__
ParamStr(p) ==
    LET suffix == IF p.is_ref THEN "&" ELSE ""
    IN  p.type \o suffix \o " " \o Str(p.name)

\* get_type without the namespace prefix
get_typeNoPrefix(p) ==
    LET suffix == IF p.is_ref THEN "&" ELSE ""
    IN  p.type \o suffix

\* get_type, local to Method.__str__
get_type(p) ==
    LET suffix == IF p.is_ref THEN "&" ELSE ""
        prefix == IF StartsWith(p.type, "Stk") THEN "stk::" ELSE ""
    IN  prefix \o p.type \o suffix

\* Method.__str__
MethodStr(m) ==
    LET name == m.name
        klass == m.parent
    IN  IF m.name = "tick"
        THEN LET params == Join([k \in 1..Len(m.params) |-> get_type(m.params[k])], ", ")
             IN  "        luabridge::overload<" \o params \o ">(&stk::"
                     \o klass \o "::" \o name \o "),"
        ELSE "    .addFunction(\"" \o name \o "\", &stk::" \o klass \o "::" \o name \o ")"

\* Constructor.__str__ without the branch for an empty parameter list
ConstructorStrOneForm(c) ==
    LET params == Join([k \in 1..Len(c.params) |-> ParamStr(c.params[k])], ", ")
    IN  "    .addConstructor<void (*) (" \o params \o ")>()"

\* Constructor.__str__
ConstructorStr(c) ==
    IF Len(c.params) > 0
    THEN LET params == Join([k \in 1..Len(c.params) |-> ParamStr(c.params[k])], ", ")
         IN  "    .addConstructor<void (*) (" \o params \o ")>()"
    ELSE "    .addConstructor<void ()> ()"

\* CppClass.add_constructor
add_constructor(c, parent) ==
    [name |-> c.name,
     params |-> [k \in 1..Len(c.params) |->
                   [name |-> c.params[k].name, type |-> c.params[k].type,
                    is_ref |-> c.params[k].is_ref]],
     parent |-> parent]

\* CppClass.add_method; the parameters are MethodParam objects, whose
\* __str__ Method.__str__ never calls (it reads type and is_ref in get_type)
add_method(m, parent) ==
    [name |-> m.name,
     params |-> [k \in 1..Len(m.params) |->
                   [name |-> m.params[k].name, type |-> m.params[k].type,
                    is_ref |-> m.params[k].is_ref]],
     returns |-> m.returns,
     parent |-> parent]

\* CppClass.__init__; the back-reference parent is used for its name only
CppClass(entry) ==
    [name |-> entry.name,
     destructor |-> entry.destructor,
     constructors |-> [k \in 1..Len(entry.constructors) |->
                         add_constructor(entry.constructors[k], entry.name)],
     methods |-> [k \in 1..Len(entry.methods) |->
                    add_method(entry.methods[k], entry.name)]]

\* CppClass.__str__ with the two loops in the other order
CppClassStrMethodsFirst(c) ==
    LET name == c.name
        start == ".beginClass <stk::" \o name \o "> (\"" \o name \o "\")"
        end == ".endClass()"
        res == <<start>>
                 \o [k \in 1..Len(c.methods) |-> MethodStr(c.methods[k])]
                 \o [k \in 1..Len(c.constructors) |-> ConstructorStr(c.constructors[k])]
                 \o <<end>>
    IN  Join(res, "\n")

\* CppClass.__str__
CppClassStr(c) ==
    LET name == c.name
        start == ".beginClass <stk::" \o name \o "> (\"" \o name \o "\")"
        end == ".endClass()"
        res == <<start>>
                 \o [k \in 1..Len(c.constructors) |-> ConstructorStr(c.constructors[k])]
                 \o [k \in 1..Len(c.methods) |-> MethodStr(c.methods[k])]
                 \o <<end>>
    IN  Join(res, "\n")

-----------------------------------------------------------------------------
(* get_class *)

\* one iteration of the loop over a constructor's parameters
ConstructorParameter(p) ==
    LET name == p.name
    IN  IF "typename" \in DOMAIN p.type
        THEN Ok(<<[name |-> name, type |-> p.type.typename.segments[1].name,
                   is_ref |-> FALSE]>>)
        ELSE IF "ref_to" \in DOMAIN p.type
        THEN IF "segments" \in DOMAIN p.type.ref_to
             THEN Ok(<<[name |-> name, type |-> p.type.ref_to.segments[1].name,
                        is_ref |-> TRUE]>>)
             ELSE Raise("KeyError")
        ELSE Ok(<<>>)

\* one iteration of the loop over a method's parameters
MethodParameter(p) ==
    LET name == p.name
    IN  IF "typename" \in DOMAIN p.type
        THEN Ok(<<[name |-> name, type |-> p.type.typename.segments[1].name,
                   is_ref |-> FALSE]>>)
        ELSE IF "ref_to" \in DOMAIN p.type
        THEN IF "typename" \in DOMAIN p.type.ref_to
             THEN Ok(<<[name |-> name,
                        type |-> p.type.ref_to.typename.segments[1].name,
                        is_ref |-> TRUE]>>)
             ELSE Raise("KeyError")
        ELSE Ok(<<>>)

\* for p in m['parameters'], in a constructor
RECURSIVE ConstructorParameters(_, _)
ConstructorParameters(ps, acc) ==
    IF Len(ps) = 0 THEN Ok(acc)
    ELSE LET r == ConstructorParameter(Head(ps))
         IN  IF Raised(r) THEN r ELSE ConstructorParameters(Tail(ps), acc \o r.val)

\* for p in m['parameters'], in a method
RECURSIVE MethodParameters(_, _)
MethodParameters(ps, acc) ==
    IF Len(ps) = 0 THEN Ok(acc)
    ELSE LET r == MethodParameter(Head(ps))
         IN  IF Raised(r) THEN r ELSE MethodParameters(Tail(ps), acc \o r.val)

\* the loop body without the test of m['access']
ClassMemberAnyAccess(m, r) ==
    IF m.constructor
    THEN LET ps == ConstructorParameters(m.parameters, <<>>)
         IN  IF Raised(ps) THEN ps
             ELSE Ok([r EXCEPT !.constructors =
                        Append(@, [name |-> m.name.segments[1].name,
                                   params |-> ps.val])])
    ELSE IF m.destructor
    THEN Ok([r EXCEPT !.destructor = Some(m.name.segments[1].name)])
    ELSE LET rt == m.return_type[1]
             returns == IF "typename" \in DOMAIN rt
                        THEN Some(rt.typename.segments[1].name)
                        ELSE None
             ps == MethodParameters(m.parameters, <<>>)
         IN  IF Raised(ps) THEN ps
             ELSE Ok([r EXCEPT !.methods =
                        Append(@, [name |-> m.name.segments[1].name,
                                   params |-> ps.val,
                                   returns |-> returns])])

\* the body of `for m in d['classes'][0]['methods']` for one member
ClassMember(m, r) ==
    IF m.access = "public"
    THEN IF m.constructor
         THEN LET ps == ConstructorParameters(m.parameters, <<>>)
              IN  IF Raised(ps) THEN ps
                  ELSE Ok([r EXCEPT !.constructors =
                             Append(@, [name |-> m.name.segments[1].name,
                                        params |-> ps.val])])
         ELSE IF m.destructor
         THEN Ok([r EXCEPT !.destructor = Some(m.name.segments[1].name)])
         ELSE LET rt == m.return_type[1]
                  returns == IF "typename" \in DOMAIN rt
                             THEN Some(rt.typename.segments[1].name)
                             ELSE None
                  ps == MethodParameters(m.parameters, <<>>)
              IN  IF Raised(ps) THEN ps
                  ELSE Ok([r EXCEPT !.methods =
                             Append(@, [name |-> m.name.segments[1].name,
                                        params |-> ps.val,
                                        returns |-> returns])])
    ELSE Ok(r)

\* for m in d['classes'][0]['methods']
RECURSIVE ClassMembers(_, _)
ClassMembers(ms, r) ==
    IF Len(ms) = 0 THEN Ok(r)
    ELSE LET r1 == ClassMember(Head(ms), r)
         IN  IF Raised(r1) THEN r1 ELSE ClassMembers(Tail(ms), r1.val)

get_class(tree) ==
    IF "stk" \notin DOMAIN tree.namespace.namespaces THEN Raise("KeyError")
    ELSE LET d == tree.namespace.namespaces.stk
         IN  IF Len(d.classes) = 0 THEN Raise("IndexError")
             ELSE LET r0 == [name |-> d.classes[1].class_decl.typename.segments[1].name,
                             constructors |-> <<>>,
                             destructor |-> None,
                             methods |-> <<>>]
                      r == ClassMembers(d.classes[1].methods, r0)
                  IN  IF Raised(r) THEN r ELSE Ok(CppClass(r.val))

-----------------------------------------------------------------------------
(* The corpus: what STK_INCLUDE.iterdir() and parse_file deliver *)

\* a directory entry whose text parse_file turns into a tree
Parsed(stem, tree) == [stem |-> stem, raises |-> "", tree |-> Some(tree)]
\* a directory entry on which parse_file raises
Unparsed(stem, exc) == [stem |-> stem, raises |-> exc, tree |-> None]

PubCtor(cls, params) == Member("public", TRUE, FALSE, cls, params, None)
PubDtor(cls) == Member("public", FALSE, TRUE, "~" \o cls, <<>>, None)
PubMethod(n, params, ret) == Member("public", FALSE, FALSE, n, params, Some(ret))
PrivMethod(n, params, ret) == Member("private", FALSE, FALSE, n, params, Some(ret))

\* parameter declarations: int x, StkFloat rate, StkFrames& frames,
\* an unnamed double&, int* p, int*& rp, int a[]
ParamPool ==
    << Parameter(Some("x"), NamedType("int")),
       Parameter(Some("rate"), NamedType("StkFloat")),
       Parameter(Some("frames"), RefTo(NamedType("StkFrames"))),
       Parameter(None, RefTo(NamedType("double"))),
       Parameter(Some("p"), PtrTo(NamedType("int"))),
       Parameter(Some("rp"), RefTo(PtrTo(NamedType("int")))),
       Parameter(Some("a"), ArrayOf(NamedType("int"))) >>

\* member declarations of a class Foo
MemberPool ==
    << PubCtor("Foo", <<>>),
       PubCtor("Foo", <<Parameter(Some("x"), NamedType("int")),
                        Parameter(Some("rate"), NamedType("StkFloat"))>>),
       PubDtor("Foo"),
       PubMethod("tick", <<Parameter(None, NamedType("StkFloat"))>>, NamedType("void")),
       PubMethod("tick", <<>>, NamedType("double")),
       PubMethod("setRate", <<Parameter(Some("rate"), NamedType("StkFloat"))>>,
                 NamedType("void")),
       PrivMethod("tick", <<Parameter(Some("x"), NamedType("int"))>>, NamedType("void")),
       PubMethod("tick", <<Parameter(Some("frames"), RefTo(NamedType("StkFrames"))),
                           Parameter(Some("channel"), NamedType("unsigned"))>>,
                 RefTo(NamedType("StkFrames"))) >>

\* the sequences of at most n indices into a pool of m elements
IndexSeqs(m, n) == UNION { [1..k -> 1..m] : k \in 0..n }

\* the elements of pool that ix selects, in the order of ix
Pick(pool, ix) == [k \in 1..Len(ix) |-> pool[ix[k]]]

\* a header declaring one class Foo with the members ms
MemberHeader(ms) == StkTree(<<ClassDecl("Foo", ms)>>)

MemberKinds == {"constructor", "tick", "setRate"}

\* a header declaring one class Foo with one public member taking ps
ParamHeader(kind, ps) ==
    CASE kind = "constructor" ->
           StkTree(<<ClassDecl("Foo", <<PubCtor("Foo", ps)>>)>>)
      [] kind = "tick" ->
           StkTree(<<ClassDecl("Foo", <<PubMethod("tick", ps, NamedType("void"))>>)>>)
      [] kind = "setRate" ->
           StkTree(<<ClassDecl("Foo", <<PubMethod("setRate", ps, NamedType("void"))>>)>>)

Stems == <<"ADSR", "BiQuad", "Clarinet", "Delay", "Echo">>

\* the kinds of directory entry a corpus of several files is drawn from
FileKinds ==
    << "class", "two classes", "syntax error", "no stk namespace", "no class",
       "reference constructor", "undecodable" >>

FileOfKind(stem, kind) ==
    CASE kind = "class" ->
           Parsed(stem, StkTree(<<ClassDecl(stem,
               <<PubCtor(stem, <<>>),
                 PubMethod("tick", <<Parameter(Some("x"), NamedType("StkFloat"))>>,
                           NamedType("StkFloat"))>>)>>))
      [] kind = "two classes" ->
           Parsed(stem, StkTree(<<ClassDecl(stem,
               <<PubMethod("clear", <<>>, NamedType("void"))>>),
             ClassDecl("Helper",
               <<PubCtor("Helper", <<>>),
                 PubMethod("tick", <<>>, NamedType("StkFloat"))>>)>>))
      [] kind = "syntax error" -> Unparsed(stem, "CxxParseError")
      [] kind = "no stk namespace" ->
           Parsed(stem, StdTree(<<ClassDecl(stem, <<PubCtor(stem, <<>>)>>)>>))
      [] kind = "no class" -> Parsed(stem, StkTree(<<>>))
      [] kind = "reference constructor" ->
           Parsed(stem, StkTree(<<ClassDecl(stem,
               <<PubCtor(stem, <<Parameter(Some("frames"),
                                           RefTo(NamedType("StkFrames")))>>)>>)>>))
      [] kind = "undecodable" -> Unparsed(stem, "UnicodeDecodeError")

\* a directory of up to MaxFiles entries, each of one of the kinds
Directory(ks) == [k \in 1..Len(ks) |-> FileOfKind(Stems[k], FileKinds[ks[k]])]

-----------------------------------------------------------------------------
(* main *)

\* obj = parse_file(f); d = dataclasses.asdict(obj); klass = get_class(d)
Extract(f) == IF f.raises # "" THEN Raise(f.raises) ELSE get_class(f.tree[1])

Init ==
    /\ \/ \E ks \in IndexSeqs(Len(FileKinds), MaxFiles) :
              corpus = Directory(ks)
       \/ \E ix \in IndexSeqs(Len(MemberPool), MaxMembers) :
              corpus = <<Parsed("Foo", MemberHeader(Pick(MemberPool, ix)))>>
       \/ \E ix \in IndexSeqs(Len(ParamPool), MaxParams), kind \in MemberKinds :
              corpus = <<Parsed("Foo", ParamHeader(kind, Pick(ParamPool, ix)))>>
    /\ pc = "visit"
    /\ i = 1
    /\ j = 1
    /\ classes = <<>>
    /\ out = <<>>

\* an iteration that prints the class as soon as it is extracted
VisitExtractedStreaming ==
    /\ pc = "visit"
    /\ i <= Len(corpus)
    /\ ~Raised(Extract(corpus[i]))
    /\ classes' = Append(classes, Extract(corpus[i]).val)
    /\ out' = Append(out, CppClassStr(Extract(corpus[i]).val))
    /\ i' = i + 1
    /\ UNCHANGED <<corpus, pc, j>>

\* an iteration of the first loop that reaches classes.append(klass)
VisitExtracted ==
    /\ pc = "visit"
    /\ i <= Len(corpus)
    /\ ~Raised(Extract(corpus[i]))
    /\ classes' = Append(classes, Extract(corpus[i]).val)
    /\ i' = i + 1
    /\ UNCHANGED <<corpus, pc, j, out>>

\* except cxxheaderparser.errors.CxxParseError
VisitParseError ==
    /\ pc = "visit"
    /\ i <= Len(corpus)
    /\ Extract(corpus[i]).exc = "CxxParseError"
    /\ out' = Append(out, Print2("ERROR: ", corpus[i].stem))
    /\ i' = i + 1
    /\ UNCHANGED <<corpus, pc, j, classes>>

\* except KeyError, without the print
VisitKeyErrorSilent ==
    /\ pc = "visit"
    /\ i <= Len(corpus)
    /\ Extract(corpus[i]).exc = "KeyError"
    /\ i' = i + 1
    /\ UNCHANGED <<corpus, pc, j, classes, out>>

\* except KeyError
VisitKeyError ==
    /\ pc = "visit"
    /\ i <= Len(corpus)
    /\ Extract(corpus[i]).exc = "KeyError"
    /\ out' = Append(out, Print2("KeyError: ", corpus[i].stem))
    /\ i' = i + 1
    /\ UNCHANGED <<corpus, pc, j, classes>>

\* except IndexError
VisitIndexError ==
    /\ pc = "visit"
    /\ i <= Len(corpus)
    /\ Extract(corpus[i]).exc = "IndexError"
    /\ out' = Append(out, Print2("IndexError: ", corpus[i].stem))
    /\ i' = i + 1
    /\ UNCHANGED <<corpus, pc, j, classes>>

\* any other exception leaves main
VisitUnhandled ==
    /\ pc = "visit"
    /\ i <= Len(corpus)
    /\ Extract(corpus[i]).exc \notin {"", "CxxParseError", "KeyError", "IndexError"}
    /\ pc' = "aborted"
    /\ UNCHANGED <<corpus, i, j, classes, out>>

\* the first loop is exhausted
EndOfCorpus ==
    /\ pc = "visit"
    /\ i > Len(corpus)
    /\ pc' = "print"
    /\ j' = 1
    /\ UNCHANGED <<corpus, i, classes, out>>

\* the second loop running over reversed(classes)
PrintClassReversed ==
    /\ pc = "print"
    /\ j <= Len(classes)
    /\ out' = Append(out, CppClassStr(classes[Len(classes) + 1 - j]))
    /\ j' = j + 1
    /\ UNCHANGED <<corpus, pc, i, classes>>

\* for c in classes: print(c)
PrintClass ==
    /\ pc = "print"
    /\ j <= Len(classes)
    /\ out' = Append(out, CppClassStr(classes[j]))
    /\ j' = j + 1
    /\ UNCHANGED <<corpus, pc, i, classes>>

\* the second loop is exhausted
Finish ==
    /\ pc = "print"
    /\ j > Len(classes)
    /\ pc' = "done"
    /\ UNCHANGED <<corpus, i, j, classes, out>>

Next ==
    \/ VisitExtracted
    \/ VisitParseError
    \/ VisitKeyError
    \/ VisitIndexError
    \/ VisitUnhandled
    \/ EndOfCorpus
    \/ PrintClass
    \/ Finish

Spec == Init /\ [][Next]_vars

-----------------------------------------------------------------------------
(* Rendering alone: CppClass(entry) built from a record dict and printed *)

ParamRecords ==
    << [name |-> Some("x"), type |-> "int", is_ref |-> FALSE],
       [name |-> Some("x"), type |-> "int", is_ref |-> TRUE],
       [name |-> Some("x"), type |-> "StkFloat", is_ref |-> FALSE],
       [name |-> Some("x"), type |-> "StkFloat", is_ref |-> TRUE],
       [name |-> None, type |-> "int", is_ref |-> FALSE],
       [name |-> None, type |-> "int", is_ref |-> TRUE],
       [name |-> None, type |-> "StkFloat", is_ref |-> FALSE],
       [name |-> None, type |-> "StkFloat", is_ref |-> TRUE] >>

\* the dict CppClass is built from: two constructors, the first taking ps,
\* and one method named n taking ps
Entry(ps, n) ==
    [name |-> "Foo",
     destructor |-> None,
     constructors |-> <<[name |-> "Foo", params |-> ps],
                        [name |-> "Foo", params |-> <<>>]>>,
     methods |-> <<[name |-> n, params |-> ps, returns |-> None]>>]

InitRender ==
    /\ corpus = <<>>
    /\ pc = "print"
    /\ i = 1
    /\ j = 1
    /\ \E ix \in IndexSeqs(Len(ParamRecords), MaxParams), n \in {"tick", "setRate"} :
           classes = <<CppClass(Entry(Pick(ParamRecords, ix), n))>>
    /\ out = <<>>

NextRender ==
    \/ PrintClass
    \/ Finish

SpecRender == InitRender /\ [][NextRender]_vars

-----------------------------------------------------------------------------
(* Reading the output stream *)

\* s.split(sep) for a one-character sep
Split(s, sep) ==
    LET at == { k \in 1..Len(s) : SubSeq(s, k, k) = sep }
        n == Cardinality(at)
        \* the position of the m-th separator; 0 and Len(s) + 1 stand for the ends
        pos(m) == IF m = 0 THEN 0
                  ELSE IF m = n + 1 THEN Len(s) + 1
                  ELSE CHOOSE k \in at : Cardinality({ h \in at : h < k }) = m - 1
    IN  [m \in 1..(n + 1) |-> SubSeq(s, pos(m - 1) + 1, pos(m) - 1)]

Lines(s) == Split(s, "\n")

EndsWith(s, suffix) ==
    /\ Len(s) >= Len(suffix)
    /\ SubSeq(s, Len(s) - Len(suffix) + 1, Len(s)) = suffix

IsBlock(s) == StartsWith(s, ".beginClass ")
IsReport(s) ==
    \/ StartsWith(s, "ERROR: ")
    \/ StartsWith(s, "KeyError: ")
    \/ StartsWith(s, "IndexError: ")
IsOverloadEntry(s) == StartsWith(s, "        luabridge::overload<")

Blocks(o) == SelectSeq(o, IsBlock)
Reports(o) == SelectSeq(o, IsReport)

Recognized == {"CxxParseError", "KeyError", "IndexError"}

\* what visiting file k raises; "" when it is extracted
Outcome(k) == Extract(corpus[k]).exc

\* the indices, in visitation order, of the files among the first n that were extracted
RECURSIVE ExtractedUpTo(_)
ExtractedUpTo(n) ==
    IF n = 0 THEN <<>>
    ELSE IF Outcome(n) = "" THEN Append(ExtractedUpTo(n - 1), n)
    ELSE ExtractedUpTo(n - 1)

\* the indices, in visitation order, of the files among the first n that failed
RECURSIVE FailedUpTo(_)
FailedUpTo(n) ==
    IF n = 0 THEN <<>>
    ELSE IF Outcome(n) \in Recognized THEN Append(FailedUpTo(n - 1), n)
    ELSE FailedUpTo(n - 1)

ReportLabel(exc) ==
    CASE exc = "CxxParseError" -> "ERROR: "
      [] exc = "KeyError" -> "KeyError: "
      [] exc = "IndexError" -> "IndexError: "

ReportOf(k) == ReportLabel(Outcome(k)) \o " " \o corpus[k].stem
BlockOf(k) == CppClassStr(Extract(corpus[k]).val)

ReportsUpTo(n) == [m \in 1..Len(FailedUpTo(n)) |-> ReportOf(FailedUpTo(n)[m])]
BlocksUpTo(n) == [m \in 1..Len(ExtractedUpTo(n)) |-> BlockOf(ExtractedUpTo(n)[m])]

\* the number of files main has finished with
Visited == IF pc \in {"visit", "aborted"} THEN i - 1 ELSE Len(corpus)

-----------------------------------------------------------------------------
(* C1 *)

ExactlyOneFails ==
    /\ Len(corpus) >= 1
    /\ Len(FailedUpTo(Len(corpus))) = 1
    /\ Len(ExtractedUpTo(Len(corpus))) = Len(corpus) - 1

\* C1: when exactly one of the N files fails with a recognized failure and
\* the others are extracted, the finished run has emitted N-1 blocks and one
\* failure report, which names the failing file, and the accumulated classes
\* are those of the other N-1 files; while the files are visited the
\* accumulated list holds the extracted files' classes and nothing else.
C1_Isolation ==
    ExactlyOneFails =>
        LET N == Len(corpus)
            bad == FailedUpTo(N)[1]
        IN  /\ pc = "visit" =>
                 classes = [m \in 1..Len(ExtractedUpTo(i - 1)) |->
                              Extract(corpus[ExtractedUpTo(i - 1)[m]]).val]
            /\ pc = "done" =>
                 /\ Len(Blocks(out)) = N - 1
                 /\ Len(Reports(out)) = 1
                 /\ Len(out) = N
                 /\ EndsWith(Reports(out)[1], " " \o corpus[bad].stem)
                 /\ Len(classes) = N - 1
                 /\ \A m \in 1..Len(classes) :
                        /\ ExtractedUpTo(N)[m] # bad
                        /\ classes[m] = Extract(corpus[ExtractedUpTo(N)[m]]).val

C1_Witness ==
    /\ pc = "done"
    /\ ExactlyOneFails
    /\ Len(corpus) = 3
    /\ Outcome(2) = "IndexError"

-----------------------------------------------------------------------------
(* C2 *)

\* what a driver that emits as it goes has written after n files
RECURSIVE Interleaved(_)
Interleaved(n) ==
    IF n = 0 THEN <<>>
    ELSE IF Outcome(n) = "" THEN Append(Interleaved(n - 1), BlockOf(n))
    ELSE IF Outcome(n) \in Recognized THEN Append(Interleaved(n - 1), ReportOf(n))
    ELSE Interleaved(n - 1)

\* C2 (as claimed): whenever the next file is about to be parsed, the blocks
\* of the files extracted so far are already in the output, interleaved with
\* the failure reports in visitation order.
C2_NoBuffering ==
    pc \in {"visit", "aborted"} => out = Interleaved(i - 1)

\* C2 (amended): blocks are buffered.  While the files are visited the output
\* holds only the failure reports of the failing files, in visitation order;
\* the blocks of the extracted files are emitted after the last file was
\* visited, in visitation order, after every failure report.
C2_Buffered ==
    /\ pc \in {"visit", "aborted"} => out = ReportsUpTo(i - 1)
    /\ pc = "print" =>
         out = ReportsUpTo(Len(corpus)) \o SubSeq(BlocksUpTo(Len(corpus)), 1, j - 1)
    /\ pc = "done" =>
         out = ReportsUpTo(Len(corpus)) \o BlocksUpTo(Len(corpus))

C2_Witness ==
    /\ pc = "done"
    /\ Len(corpus) = 3
    /\ Outcome(1) = ""
    /\ Outcome(2) = "KeyError"
    /\ Outcome(3) = ""
    /\ BlockOf(1) # BlockOf(3)
    /\ Len(out) = 3

-----------------------------------------------------------------------------
(* C10 *)

\* C10: a block is in the output only once the last file has been visited;
\* no failure report follows a block; a run aborted by an unrecognized
\* failure has emitted no block, whatever it had extracted before.
C10_BlocksAfterLastFile ==
    /\ (\E n \in 1..Len(out) : IsBlock(out[n])) =>
           /\ pc \in {"print", "done"}
           /\ i = Len(corpus) + 1
    /\ \A a, b \in 1..Len(out) : (a < b /\ IsBlock(out[a])) => ~IsReport(out[b])
    /\ pc = "aborted" => Blocks(out) = <<>>

C10_Witness ==
    /\ pc = "aborted"
    /\ Len(classes) >= 1
    /\ Len(Reports(out)) >= 1

-----------------------------------------------------------------------------
(* Reading a block against the class record it was printed from: the k-th
   block of the output is the k-th accumulated class *)

NumBlocks == Len(Blocks(out))
BlockLines(k) == Lines(Blocks(out)[k])

IsTick(m) == m.name = "tick"

RefMark(p) == IF p.is_ref THEN "&" ELSE ""

-----------------------------------------------------------------------------
(* C3 *)

NoArgConstructorLine == "    .addConstructor<void ()> ()"

\* C3 (as claimed): every constructor line lists exactly the parameter types
\* in order, each followed by & iff is_ref, and no parameter name; a
\* constructor without parameters renders as the no-argument registration.
C3_TypesOnly ==
    \A k \in 1..NumBlocks :
        LET c == classes[k]
            ls == BlockLines(k)
        IN  /\ Len(ls) >= 1 + Len(c.constructors)
            /\ \A n \in 1..Len(c.constructors) :
                   LET ps == c.constructors[n].params
                   IN  ls[1 + n] =
                         IF Len(ps) = 0 THEN NoArgConstructorLine
                         ELSE "    .addConstructor<void (*) ("
                                \o Join([q \in 1..Len(ps) |-> ps[q].type \o RefMark(ps[q])], ", ")
                                \o ")>()"

\* C3 (amended): every constructor line lists the parameters in order, each
\* as its type, followed by & iff is_ref, then one space and the parameter's
\* name (the text None for an unnamed parameter); a constructor without
\* parameters renders as the no-argument registration.
C3_TypesAndNames ==
    \A k \in 1..NumBlocks :
        LET c == classes[k]
            ls == BlockLines(k)
        IN  /\ Len(ls) >= 1 + Len(c.constructors)
            /\ \A n \in 1..Len(c.constructors) :
                   LET ps == c.constructors[n].params
                       nm(q) == IF ps[q].name = <<>> THEN "None" ELSE ps[q].name[1]
                   IN  ls[1 + n] =
                         IF Len(ps) = 0 THEN NoArgConstructorLine
                         ELSE "    .addConstructor<void (*) ("
                                \o Join([q \in 1..Len(ps) |->
                                           ps[q].type \o RefMark(ps[q]) \o " " \o nm(q)], ", ")
                                \o ")>()"

C3_Witness ==
    /\ pc = "done"
    /\ NumBlocks = 1
    /\ LET ps == classes[1].constructors[1].params
       IN  /\ Len(ps) = 3
           /\ ps[1].is_ref /\ ps[1].name = None
           /\ ~ps[2].is_ref /\ ps[2].name # None
           /\ ps[3].is_ref
    /\ Len(classes[1].constructors[2].params) = 0

-----------------------------------------------------------------------------
(* C5 *)

\* C5: the overload entries of a block are, in order, one per method record
\* named tick; each lists the parameter types only, in declaration order,
\* with the stk:: prefix iff the type name starts with Stk and with & iff
\* the parameter is a reference.
C5_TickOverloads ==
    \A k \in 1..NumBlocks :
        LET c == classes[k]
            ticks == SelectSeq(c.methods, IsTick)
            entries == SelectSeq(BlockLines(k), IsOverloadEntry)
            typ(p) == (IF Len(p.type) >= 3 /\ SubSeq(p.type, 1, 3) = "Stk"
                       THEN "stk::" ELSE "") \o p.type \o RefMark(p)
        IN  /\ Len(entries) = Len(ticks)
            /\ \A n \in 1..Len(ticks) :
                   entries[n] =
                       "        luabridge::overload<"
                         \o Join([q \in 1..Len(ticks[n].params) |-> typ(ticks[n].params[q])], ", ")
                         \o ">(&stk::" \o c.name \o "::tick),"

C5_Witness ==
    /\ pc = "done"
    /\ NumBlocks = 1
    /\ LET ticks == SelectSeq(classes[1].methods, IsTick)
       IN  /\ Len(ticks) >= 2
           /\ Len(classes[1].methods) > Len(ticks)
           /\ \E n \in 1..Len(ticks) :
                  /\ Len(ticks[n].params) = 2
                  /\ ticks[n].params[1].is_ref
                  /\ StartsWith(ticks[n].params[1].type, "Stk")
                  /\ ticks[n].params[1].name # None
                  /\ ~StartsWith(ticks[n].params[2].type, "Stk")

-----------------------------------------------------------------------------
(* C6 *)

BeginClassLine(n) == ".beginClass <stk::" \o n \o "> (\"" \o n \o "\")"
EndClassLine == ".endClass()"

\* C6 (as claimed): a block is the begin-class line, the constructor lines,
\* the method lines and the end-class line, and the entries of the methods
\* named tick form one contiguous run of lines.
C6_TickCollapsed ==
    \A k \in 1..NumBlocks :
        LET c == classes[k]
            ls == BlockLines(k)
        IN  /\ ls[1] = BeginClassLine(c.name)
            /\ ls[Len(ls)] = EndClassLine
            /\ \A a, b, d \in 1..Len(ls) :
                   (a < b /\ b < d /\ IsOverloadEntry(ls[a]) /\ IsOverloadEntry(ls[d]))
                       => IsOverloadEntry(ls[b])

\* C6 (amended): a block is the begin-class line, one line per constructor
\* in declaration order, one line per method in declaration order, and the
\* end-class line; a method named tick is rendered in place as its own
\* overload entry line, any other method as its addFunction line, so the
\* tick entries are adjacent only where the tick overloads are declared
\* next to each other.
C6_OneLinePerMethod ==
    \A k \in 1..NumBlocks :
        LET c == classes[k]
            ls == BlockLines(k)
            nc == Len(c.constructors)
            nm == Len(c.methods)
        IN  /\ Len(ls) = 2 + nc + nm
            /\ ls[1] = BeginClassLine(c.name)
            /\ ls[Len(ls)] = EndClassLine
            /\ \A n \in 1..nc :
                   /\ StartsWith(ls[1 + n], "    .addConstructor<")
                   /\ ls[1 + n] = ConstructorStr(c.constructors[n])
            /\ \A n \in 1..nm :
                   /\ ls[1 + nc + n] = MethodStr(c.methods[n])
                   /\ IF c.methods[n].name = "tick"
                      THEN /\ IsOverloadEntry(ls[1 + nc + n])
                           /\ EndsWith(ls[1 + nc + n], ">(&stk::" \o c.name \o "::tick),")
                      ELSE ls[1 + nc + n] =
                             "    .addFunction(\"" \o c.methods[n].name \o "\", &stk::"
                               \o c.name \o "::" \o c.methods[n].name \o ")"

C6_Witness ==
    /\ pc = "done"
    /\ NumBlocks = 1
    /\ Len(classes[1].constructors) = 1
    /\ Len(classes[1].constructors[1].params) = 2
    /\ Len(classes[1].methods) = 3
    /\ classes[1].methods[1].name = "tick"
    /\ classes[1].methods[2].name = "setRate"
    /\ classes[1].methods[3].name = "tick"
    /\ Len(classes[1].methods[3].params) = 2

-----------------------------------------------------------------------------
(* C8 *)

\* namespace stk { class Foo { public: Foo(); ~Foo();
\*                             void tick(StkFloat); double tick(); }; }
FooHeader ==
    StkTree(<<ClassDecl("Foo",
        <<PubCtor("Foo", <<>>),
          PubDtor("Foo"),
          PubMethod("tick", <<Parameter(None, NamedType("StkFloat"))>>, NamedType("void")),
          PubMethod("tick", <<>>, NamedType("double"))>>)>>)

FooRun == pc = "done" /\ corpus = <<Parsed("Foo", FooHeader)>>

\* C8 (as claimed): the block of the Foo header is the begin-class line, the
\* no-argument constructor line, the tick entries (stk::StkFloat) and
\* (double) in that order, and the end-class line.
C8_FooEntriesStkFloatDouble ==
    FooRun =>
        /\ Len(out) = 1
        /\ Lines(out[1]) =
             << ".beginClass <stk::Foo> (\"Foo\")",
                "    .addConstructor<void ()> ()",
                "        luabridge::overload<stk::StkFloat>(&stk::Foo::tick),",
                "        luabridge::overload<double>(&stk::Foo::tick),",
                ".endClass()" >>

\* C8 (amended): the block of the Foo header is the begin-class line, the
\* no-argument constructor line, the tick entries (stk::StkFloat) and () in
\* that order, the second with an empty type list because double tick()
\* takes no parameter and the return type is not rendered, and the
\* end-class line.
C8_FooEntriesStkFloatEmpty ==
    FooRun =>
        /\ Len(out) = 1
        /\ Lines(out[1]) =
             << ".beginClass <stk::Foo> (\"Foo\")",
                "    .addConstructor<void ()> ()",
                "        luabridge::overload<stk::StkFloat>(&stk::Foo::tick),",
                "        luabridge::overload<>(&stk::Foo::tick),",
                ".endClass()" >>

C8_Witness == FooRun /\ Len(out) = 1 /\ classes[1].destructor = Some("~Foo")

-----------------------------------------------------------------------------
(* C9 *)

IsPublicCtor(m) == m.access = "public" /\ m.constructor
IsPublicMethod(m) == m.access = "public" /\ ~m.constructor /\ ~m.destructor

FirstClass(k) == corpus[k].tree[1].namespace.namespaces.stk.classes[1]

\* C9: the block of every extracted file has 2 lines plus one per public
\* constructor and one per public member that is neither constructor nor
\* destructor of the first class of namespace stk.
C9_LinesCountPublicMembers ==
    pc \in {"print", "done"} =>
        \A k \in 1..NumBlocks :
            LET ms == FirstClass(ExtractedUpTo(Len(corpus))[k]).methods
            IN  Len(BlockLines(k)) =
                    2 + Len(SelectSeq(ms, IsPublicCtor)) + Len(SelectSeq(ms, IsPublicMethod))

C9_WitnessSecondClass ==
    /\ pc = "done"
    /\ Len(corpus) = 2
    /\ NumBlocks = 2
    /\ Len(corpus[1].tree[1].namespace.namespaces.stk.classes) = 2
    /\ Len(BlockLines(1)) = 3
    /\ Len(BlockLines(2)) = 4

C9_Witness ==
    /\ pc = "done"
    /\ Len(corpus) = 1
    /\ NumBlocks = 1
    /\ \E n \in 1..Len(FirstClass(1).methods) : FirstClass(1).methods[n].access # "public"
    /\ \E n \in 1..Len(FirstClass(1).methods) : FirstClass(1).methods[n].destructor
    /\ Len(FirstClass(1).methods) = 4
    /\ Len(BlockLines(1)) = 4

-----------------------------------------------------------------------------
(* C4, C7 *)

IsNamed(t) == "typename" \in DOMAIN t
IsRefToNamed(t) == "ref_to" \in DOMAIN t /\ "typename" \in DOMAIN t.ref_to

HasFirstClass(k) ==
    /\ corpus[k].raises = ""
    /\ "stk" \in DOMAIN corpus[k].tree[1].namespace.namespaces
    /\ Len(corpus[k].tree[1].namespace.namespaces.stk.classes) >= 1

\* the parameter declarations of the public constructors and methods
PublicParams(k) ==
    LET ms == FirstClass(k).methods
    IN  { <<n, q>> \in (1..Len(ms)) \X (1..(MaxParams + 1)) :
            /\ ms[n].access = "public"
            /\ ~ms[n].destructor
            /\ q <= Len(ms[n].parameters) }

ParamType(k, nq) == FirstClass(k).methods[nq[1]].parameters[nq[2]].type

\* the record a resolvable parameter declaration is extracted as
RecordOf(p) ==
    IF IsNamed(p.type)
    THEN [name |-> p.name, type |-> p.type.typename.segments[1].name, is_ref |-> FALSE]
    ELSE [name |-> p.name, type |-> p.type.ref_to.typename.segments[1].name, is_ref |-> TRUE]

IsResolvable(p) == IsNamed(p.type) \/ IsRefToNamed(p.type)

RecordsOf(ps) ==
    LET kept == SelectSeq(ps, IsResolvable)
    IN  [q \in 1..Len(kept) |-> RecordOf(kept[q])]

Reported(k) ==
    \E n \in 1..Len(out) :
        out[n] \in { ReportLabel(e) \o " " \o corpus[k].stem : e \in Recognized }

\* file k was extracted, its class is accumulated, and the parameters of its
\* constructor and method records are the resolvable parameter declarations,
\* in declaration order
ExtractedWithParams(k) ==
    LET pos == Len(ExtractedUpTo(k))
        ms == FirstClass(k).methods
        cs == SelectSeq(ms, IsPublicCtor)
        fs == SelectSeq(ms, IsPublicMethod)
    IN  /\ ~Reported(k)
        /\ pos >= 1
        /\ ExtractedUpTo(k)[pos] = k
        /\ pos <= Len(classes)
        /\ Len(classes[pos].constructors) = Len(cs)
        /\ \A n \in 1..Len(cs) :
               classes[pos].constructors[n].params = RecordsOf(cs[n].parameters)
        /\ Len(classes[pos].methods) = Len(fs)
        /\ \A n \in 1..Len(fs) :
               classes[pos].methods[n].params = RecordsOf(fs[n].parameters)

\* C4: a visited file whose public constructors and methods take only
\* parameters of plain named type or reference to named type, at least one
\* of them a reference, is extracted, with every plain parameter recorded
\* as (T, is_ref false) and every reference parameter as (T, is_ref true).
C4_ReferenceDetection ==
    \A k \in 1..Visited :
        ( /\ HasFirstClass(k)
          /\ \A nq \in PublicParams(k) :
                 IsNamed(ParamType(k, nq)) \/ IsRefToNamed(ParamType(k, nq))
          /\ \E nq \in PublicParams(k) : IsRefToNamed(ParamType(k, nq)) )
        => ExtractedWithParams(k)

\* C7: a visited file whose public constructors and methods take only
\* parameters of plain named type or of an unsupported shape (pointer,
\* array, reference to a pointer), at least one of them unsupported, is
\* extracted without a failure report, the unsupported parameters omitted
\* and the others kept in declaration order.
C7_UnsupportedDropped ==
    \A k \in 1..Visited :
        ( /\ HasFirstClass(k)
          /\ \A nq \in PublicParams(k) : ~IsRefToNamed(ParamType(k, nq))
          /\ \E nq \in PublicParams(k) : ~IsNamed(ParamType(k, nq)) )
        => ExtractedWithParams(k)

====
